---------------------------- MODULE Spec2Model ----------------------------
(***************************************************************************)
(* Model of src/src/prebidCurrencyRatesFileAlerter.js: a Lambda handler    *)
(* that fetches the currency rates file from S3, decides whether its       *)
(* dataAsOf timestamp is stale and, if so (or if the fetch failed), sends  *)
(* an alert email through SES before completing the invocation.            *)
(*                                                                         *)
(* JavaScript values are tagged records:                                   *)
(*   undefined  [t |-> "undefined"]        null    [t |-> "null"]          *)
(*   boolean    [t |-> "boolean", b |-> _] NaN     [t |-> "NaN"]           *)
(*   number     [t |-> "number", x10 |-> _]   (the value in tenths)        *)
(*   string     [t |-> "string", s |-> _]     (a sequence of tokens)       *)
(*   object     [t |-> "object", ...]         (its properties as fields)   *)
(*   array      [t |-> "array", items |-> _]  (a sequence of values)       *)
(* A token is a run of characters; digits, sign, point, blank and quote    *)
(* are always tokens of their own, so the parsers below read them one by   *)
(* one, and + on strings is \o on the token sequences.                     *)
(***************************************************************************)
EXTENDS Integers, Sequences, FiniteSets, TLC

(***************************************************************************)
(* Bounds of the model.                                                    *)
(***************************************************************************)
\* Number of handler invocations (each with a context object of its own).
NumInvocations == 2
\* Largest whole threshold (in days) handed to getFileStaleResult directly.
MaxThresholdDays == 3

(***************************************************************************)
(* JavaScript values.                                                      *)
(***************************************************************************)
Undefined == [t |-> "undefined"]
Null == [t |-> "null"]
NaN == [t |-> "NaN"]
Bool(b) == [t |-> "boolean", b |-> b]
Num(x10) == [t |-> "number", x10 |-> x10]
Str(s) == [t |-> "string", s |-> s]
\* An array literal [a, b, ...].
Array(items) == [t |-> "array", items |-> items]
\* The number d, a whole count (of days), as a number value.
Days(d) == Num(d * 10)

\* ToBoolean, as used by !x, x || y and if (x).
Truthy(v) ==
    CASE v.t = "undefined" -> FALSE
      [] v.t = "null" -> FALSE
      [] v.t = "NaN" -> FALSE
      [] v.t = "boolean" -> v.b
      [] v.t = "number" -> v.x10 # 0
      [] v.t = "string" -> v.s # <<>>
      [] OTHER -> TRUE

\* a || b
Or(a, b) == IF Truthy(a) THEN a ELSE b

\* ToString of the values that reach a string concatenation.
ToStringTokens(v) ==
    CASE v.t = "string" -> v.s
      [] v.t = "undefined" -> <<"undefined">>
      [] v.t = "null" -> <<"null">>
      [] v.t = "NaN" -> <<"NaN">>
      [] OTHER -> <<"[object Object]">>

\* a + b with a string on the left
Concat(a, b) == Str(ToStringTokens(a) \o ToStringTokens(b))

DigitChars == <<"0", "1", "2", "3", "4", "5", "6", "7", "8", "9">>
IsDigit(c) == \E d \in 1..10 : DigitChars[d] = c
DigitValue(c) == (CHOOSE d \in 1..10 : DigitChars[d] = c) - 1

RECURSIVE DigitRun(_, _)
\* Length of the run of digit tokens of s that starts at position p.
DigitRun(s, p) ==
    IF p <= Len(s) /\ IsDigit(s[p]) THEN 1 + DigitRun(s, p + 1) ELSE 0

RECURSIVE NatOf(_, _, _)
\* Value of the k digit tokens of s that start at position p.
NatOf(s, p, k) ==
    IF k = 0 THEN 0 ELSE NatOf(s, p, k - 1) * 10 + DigitValue(s[p + k - 1])

RECURSIVE BlankRun(_, _)
BlankRun(s, p) ==
    IF p <= Len(s) /\ s[p] = " " THEN 1 + BlankRun(s, p + 1) ELSE 0

\* The global parseFloat: ToString of the argument, leading blanks skipped,
\* an optional sign, digits, an optional point and fraction; whatever
\* follows is ignored, and no digit at all gives NaN.  The texts of the
\* model carry at most one fractional digit, which tenths hold exactly.
parseFloat(v) ==
    LET s == ToStringTokens(v)
        p0 == 1 + BlankRun(s, 1)
        signed == p0 <= Len(s) /\ s[p0] \in {"-", "+"}
        neg == signed /\ s[p0] = "-"
        p1 == IF signed THEN p0 + 1 ELSE p0
        ni == DigitRun(s, p1)
        p2 == p1 + ni
        point == p2 <= Len(s) /\ s[p2] = "."
        nf == IF point THEN DigitRun(s, p2 + 1) ELSE 0
        whole == NatOf(s, p1, ni)
        tenth == IF nf > 0 THEN DigitValue(s[p2 + 1]) ELSE 0
        mag == whole * 10 + tenth
    IN  IF ni + nf = 0 THEN NaN ELSE Num(IF neg THEN -mag ELSE mag)

(***************************************************************************)
(* Dates.  A Date is its time value in milliseconds, or invalid.           *)
(***************************************************************************)
MsPerDay == 1000 * 60 * 60 * 24
DateAt(ms) == [t |-> "date", ms |-> ms]
InvalidDate == [t |-> "date", invalid |-> TRUE]
IsValidDate(d) == "ms" \in DOMAIN d

\* The date-only ISO texts of January 1970 ("1970-01-dd", UTC midnight):
\* the part of Date.parse the model's texts exercise.  Any other text of
\* the model (letters) is no date.
DateParse(s) ==
    IF /\ Len(s) = 3
       /\ s[1] = "1970-01-"
       /\ IsDigit(s[2]) /\ IsDigit(s[3])
       /\ NatOf(s, 2, 2) \in 1..31
    THEN DateAt((NatOf(s, 2, 2) - 1) * MsPerDay)
    ELSE InvalidDate

\* new Date(value)
NewDate(v) ==
    CASE v.t = "string" -> DateParse(v.s)
      [] v.t = "null" -> DateAt(0)
      [] OTHER -> InvalidDate

\* Math.round of the quotient num / den (den > 0): floor(x + 0.5).
MathRoundDiv(num, den) == (2 * num + den) \div (2 * den)

(***************************************************************************)
(* Pure functions of the module.  A function that may log returns the      *)
(* record [ret, errors]: its return value and the lines it handed to       *)
(* logError (console.error is unconditional, lines 313-315).               *)
(***************************************************************************)
Returns(v) == [ret |-> v, errors |-> <<>>]
Fails(line) == [ret |-> Undefined, errors |-> <<line>>]
Lit(literal) == Str(<<literal>>)

\* Mutant of getDebug: a set DEBUG enables the flag when it is truthy.
getDebug_Truthy(e) ==
    IF e.DEBUG.t # "undefined" THEN Truthy(e.DEBUG) ELSE TRUE

\* process.env.DEBUG === '1' when DEBUG is defined, true otherwise.
getDebug(e) ==
    IF e.DEBUG.t # "undefined" THEN e.DEBUG = Lit("1") ELSE TRUE

\* Mutant of getBucket: the variable without the fallback.
getBucket_NoDefault(e) == e.S3_BUCKET

getBucket(e) == Or(e.S3_BUCKET, Lit("currency.prebid.org"))

getFilename(e) == Or(e.S3_FILENAME, Lit("latest.json"))

getAlertFrom(e) == Or(e.ALERT_FROM, Lit("alerts@prebid.org"))

getAlertTo(e) == Or(e.ALERT_TO, Lit("alerts@prebid.org"))

getStaleOlderThanDays(e) == Or(parseFloat(e.STALE_OLDER_THAN_DAYS), Days(2))

getAlertSubject(e) ==
    Or(parseFloat(e.ALERT_SUBJECT),
       Lit("ALERT: Prebid Currency Rates File Monitor"))

createResult(message) == [t |-> "object", message |-> message]

\* Mutant of createS3GetObjectParams: the key is not checked.
createS3GetObjectParams_BucketOnly(bucket, key) ==
    IF ~Truthy(bucket)
    THEN Fails(Lit("Error: missing argument for createS3GetObjectParams"))
    ELSE Returns([t |-> "object", Bucket |-> bucket, Key |-> key])

createS3GetObjectParams(bucket, key) ==
    IF ~Truthy(bucket) \/ ~Truthy(key)
    THEN Fails(Lit("Error: missing argument for createS3GetObjectParams"))
    ELSE Returns([t |-> "object", Bucket |-> bucket, Key |-> key])

\* JSON.parse on the texts of the model: the literals null and false, a
\* single digit, the empty string literal, the empty object, and an object
\* whose only member is a string-valued dataAsOf.  Anything else is a
\* SyntaxError.
JsonParse(s) ==
    CASE s = <<"null">> -> [ok |-> TRUE, value |-> Null]
      [] s = <<"false">> -> [ok |-> TRUE, value |-> Bool(FALSE)]
      [] Len(s) = 1 /\ IsDigit(s[1]) ->
            [ok |-> TRUE, value |-> Days(DigitValue(s[1]))]
      [] s = <<"\"", "\"">> -> [ok |-> TRUE, value |-> Str(<<>>)]
      [] s = <<"{", "}">> ->
            [ok |-> TRUE, value |-> [t |-> "object", dataAsOf |-> Undefined]]
      [] /\ Len(s) >= 6
         /\ SubSeq(s, 1, 4) = <<"{", "\"dataAsOf\"", ":", "\"">>
         /\ SubSeq(s, Len(s) - 1, Len(s)) = <<"\"", "}">>
         /\ \A k \in 5..(Len(s) - 2) : s[k] # "\"" ->
            [ok |-> TRUE,
             value |-> [t |-> "object",
                        dataAsOf |-> Str(SubSeq(s, 5, Len(s) - 2))]]
      [] OTHER -> [ok |-> FALSE]

\* Mutant of parseJson: a falsy parsed value is reported like a parse
\* failure.
parseJson_FalsyIsError(data) ==
    LET parsed == JsonParse(data.s)
    IN  IF parsed.ok /\ Truthy(parsed.value)
        THEN Returns(parsed.value)
        ELSE [ret |-> Undefined,
              errors |-> <<Lit("Error: malformed json:")>>]

\* Mutant of parseJson: the catch block logs nothing.
parseJson_Silent(data) ==
    LET parsed == JsonParse(data.s)
    IN  IF parsed.ok THEN Returns(parsed.value) ELSE Returns(Undefined)

parseJson(data) ==
    LET parsed == JsonParse(data.s)
    IN  IF parsed.ok
        THEN Returns(parsed.value)
        ELSE [ret |-> Undefined,
              errors |-> <<Lit("Error: malformed json:")>>]

\* value.dataAsOf: undefined on anything but an object that has it.
PropDataAsOf(v) == IF v.t = "object" THEN v.dataAsOf ELSE Undefined

\* a > b on numbers: false as soon as either side is NaN.
Greater(a, b) == a.t = "number" /\ b.t = "number" /\ a.x10 > b.x10

\* Mutant of daysDifference: halves are rounded away from zero.
daysDifference_HalfAwayFromZero(first, second) ==
    IF IsValidDate(first) /\ IsValidDate(second)
    THEN IF second.ms >= first.ms
         THEN Days(MathRoundDiv(second.ms - first.ms, MsPerDay))
         ELSE Days(-MathRoundDiv(first.ms - second.ms, MsPerDay))
    ELSE NaN

\* Mutant of daysDifference: Math.floor in place of Math.round.
daysDifference_Floor(first, second) ==
    IF IsValidDate(first) /\ IsValidDate(second)
    THEN Days((second.ms - first.ms) \div MsPerDay)
    ELSE NaN

\* Math.round((second - first) / (1000 * 60 * 60 * 24))
daysDifference(first, second) ==
    IF IsValidDate(first) /\ IsValidDate(second)
    THEN Days(MathRoundDiv(second.ms - first.ms, MsPerDay))
    ELSE NaN

StaleMessage(dataAsOf) ==
    Concat(Concat(Lit("The Prebid currency rates conversion data has a stale timestamp of "),
                  dataAsOf),
           Lit(". Please check the generator logs for failures: https://console.aws.amazon.com/cloudwatch/home?region=us-east-1#logStream:group=/aws/lambda/prebidCurrencyRatesFileGenerator;streamFilter=typeLogStreamPrefix"))

NotStaleMessage(dataAsOf) ==
    Concat(Concat(Lit("The Prebid currency rates conversion data has a timestamp of "),
                  dataAsOf),
           Lit(", found not to be stale."))

\* Mutant of getFileStaleResult: stale from the threshold on (>=).
getFileStaleResult_AtLeast(dataAsOf, staleOlderThanDays, clock) ==
    LET daysSinceCurrencyFile == daysDifference(NewDate(dataAsOf), DateAt(clock))
    IN  IF \/ Greater(daysSinceCurrencyFile, staleOlderThanDays)
           \/ daysSinceCurrencyFile = staleOlderThanDays
        THEN [stale |-> TRUE, result |-> createResult(StaleMessage(dataAsOf))]
        ELSE [stale |-> FALSE, result |-> createResult(NotStaleMessage(dataAsOf))]

\* Mutant of getFileStaleResult: stale unless the difference is within the
\* threshold, !(days <= threshold), which is true of a difference that is
\* not a number.
getFileStaleResult_NotWithin(dataAsOf, staleOlderThanDays, clock) ==
    LET daysSinceCurrencyFile == daysDifference(NewDate(dataAsOf), DateAt(clock))
    IN  IF \/ Greater(daysSinceCurrencyFile, staleOlderThanDays)
           \/ daysSinceCurrencyFile = NaN
        THEN [stale |-> TRUE, result |-> createResult(StaleMessage(dataAsOf))]
        ELSE [stale |-> FALSE, result |-> createResult(NotStaleMessage(dataAsOf))]

\* clock is the time value new Date() reads during the call.
getFileStaleResult(dataAsOf, staleOlderThanDays, clock) ==
    LET daysSinceCurrencyFile == daysDifference(NewDate(dataAsOf), DateAt(clock))
    IN  IF Greater(daysSinceCurrencyFile, staleOlderThanDays)
        THEN [stale |-> TRUE, result |-> createResult(StaleMessage(dataAsOf))]
        ELSE [stale |-> FALSE, result |-> createResult(NotStaleMessage(dataAsOf))]

RequiredProps == <<"alertTo", "alertSubject", "alertFrom", "alertReplyTo", "message">>

\* Mutant of createSendEmailParams: every() replaced by a loop that runs
\* to the end, so the last missing field is the one reported.
createSendEmailParams_LastMissing(config) ==
    LET missing == {k \in 1..Len(RequiredProps) : ~Truthy(config[RequiredProps[k]])}
        last == CHOOSE k \in missing : \A j \in missing : k >= j
    IN  IF missing # {}
        THEN Fails(Str(<<"Error: missing required argument for createSendEmailParams:",
                         RequiredProps[last]>>))
        ELSE Returns([t |-> "object",
                      Destination |-> [ToAddresses |-> config.alertTo],
                      Message |->
                          [Subject |-> [Data |-> config.alertSubject,
                                        Charset |-> "UTF-8"],
                           Body |-> [Text |-> [Data |-> config.message,
                                               Charset |-> "UTF-8"]]],
                      Source |-> config.alertFrom,
                      ReplyToAddresses |-> Array(<<config.alertReplyTo>>)])

createSendEmailParams(config) ==
    LET missing == {k \in 1..Len(RequiredProps) : ~Truthy(config[RequiredProps[k]])}
        first == CHOOSE k \in missing : \A j \in missing : k <= j
    IN  IF missing # {}
        THEN Fails(Str(<<"Error: missing required argument for createSendEmailParams:",
                         RequiredProps[first]>>))
        ELSE Returns([t |-> "object",
                      Destination |-> [ToAddresses |-> config.alertTo],
                      Message |->
                          [Subject |-> [Data |-> config.alertSubject,
                                        Charset |-> "UTF-8"],
                           Body |-> [Text |-> [Data |-> config.message,
                                               Charset |-> "UTF-8"]]],
                      Source |-> config.alertFrom,
                      ReplyToAddresses |-> Array(<<config.alertReplyTo>>)])

\* The callback sendEmailHandler returns closes over result and context.
sendEmailHandler(result, context) ==
    IF ~Truthy(result)
    THEN Fails(Lit("Error: missing \"result\" argument for sendEmailHandler"))
    ELSE IF ~Truthy(context)
    THEN Fails(Lit("Error: missing \"context\" argument for sendEmailHandler"))
    ELSE Returns([t |-> "function", name |-> "sendEmailCallback",
                  result |-> result, context |-> context])

\* result.message
PropMessage(result) == IF "message" \in DOMAIN result THEN result.message ELSE Undefined

\* sendAlert up to its call of ses.sendEmail: ret is the pair handed to
\* ses.sendEmail (params and callback), or undefined when it returned early.
sendAlert(result, context, e) ==
    IF ~Truthy(result)
    THEN Fails(Lit("Error: result argument is undefined for sendAlert"))
    ELSE
    LET sendEmailParams ==
            createSendEmailParams([alertTo |-> getAlertTo(e),
                                   alertSubject |-> getAlertSubject(e),
                                   alertFrom |-> getAlertFrom(e),
                                   alertReplyTo |-> getAlertFrom(e),
                                   message |-> PropMessage(result)])
        sendEmailCallback == sendEmailHandler(result, context)
    IN  IF ~Truthy(sendEmailParams.ret)
        THEN [ret |-> Undefined,
              errors |-> sendEmailParams.errors
                         \o <<Lit("Error missing argument for sendAlert")>>]
        ELSE IF ~Truthy(sendEmailCallback.ret)
        THEN [ret |-> Undefined,
              errors |-> sendEmailCallback.errors
                         \o <<Lit("Error missing arguments for sendAlert")>>]
        ELSE Returns([t |-> "call", params |-> sendEmailParams.ret,
                      callback |-> sendEmailCallback.ret])

(***************************************************************************)
(* Inputs of the model.                                                    *)
(***************************************************************************)
Invocations == 1..NumInvocations

\* The context object Lambda hands to invocation i.
Ctx(i) == [t |-> "object", id |-> i]

EnvNames == {"DEBUG", "S3_BUCKET", "S3_FILENAME", "ALERT_FROM", "ALERT_TO",
             "STALE_OLDER_THAN_DAYS", "ALERT_SUBJECT"}

\* process.env of the handler runs: nothing set, every variable set to a
\* text of its kind, every variable set to the empty text, and numeric
\* texts where the code parses one.
EnvUnset == [n \in EnvNames |-> Undefined]
EnvEmpty == [n \in EnvNames |-> Str(<<>>)]
EnvCustom ==
    [DEBUG |-> Lit("0"), S3_BUCKET |-> Lit("my.bucket"),
     S3_FILENAME |-> Lit("rates.json"), ALERT_FROM |-> Lit("from@example.org"),
     ALERT_TO |-> Lit("to@example.org"),
     STALE_OLDER_THAN_DAYS |-> Str(<<"3">>),
     ALERT_SUBJECT |-> Lit("Rates are stale")]
EnvNumeric ==
    [EnvUnset EXCEPT !.DEBUG = Lit("1"),
                     !.STALE_OLDER_THAN_DAYS = Str(<<"1", ".", "5">>),
                     !.ALERT_SUBJECT = Str(<<"7">>)]
Environments == {EnvUnset, EnvEmpty, EnvCustom, EnvNumeric}

\* "1970-01-dd"
DateText(dd) == Str(<<"1970-01-", DigitChars[(dd \div 10) + 1], DigitChars[(dd % 10) + 1]>>)

\* The body text of a rates file whose dataAsOf is the given text.
RatesFile(text) == Str(<<"{", "\"dataAsOf\"", ":", "\"">> \o text.s \o <<"\"", "}">>)

\* The wall clock of the handler runs: 7 January 1970, 00:00 UTC.
HandlerClock == 6 * MsPerDay

\* Bodies S3 may deliver: rates files dated 1 and 5 days before
\* HandlerClock and on the threshold, a file with a text that is no date,
\* a file without dataAsOf, falsy JSON values, a number, and two texts
\* that are not JSON.
Bodies ==
    {RatesFile(DateText(6)), RatesFile(DateText(4)), RatesFile(DateText(2)),
     RatesFile(Lit("yesterday")),
     Str(<<"{", "}">>), Str(<<"null">>), Str(<<"false">>), Str(<<"0">>),
     Str(<<"\"", "\"">>), Str(<<"5">>),
     Lit("not json"), Str(<<"{", "\"dataAsOf\"", ":">>)}

AwsError(message) == [t |-> "object", message |-> message]
S3Errors == {AwsError(Lit("access denied")), AwsError(Lit("NoSuchKey"))}
SesErrors == {AwsError(Lit("Email address is not verified."))}

\* (err, data) pairs the S3 client may hand to its callback.
S3Outcomes ==
    {[err |-> Null, data |-> [t |-> "object", Body |-> b]] : b \in Bodies}
    \cup {[err |-> e, data |-> Null] : e \in S3Errors}

(***************************************************************************)
(* State.                                                                  *)
(***************************************************************************)
VARIABLES
    env,          \* process.env
    now,          \* the time value new Date() reads
    pc,           \* per invocation: idle, fetching, sending, ended, threw
    entered,      \* per invocation: the exported function called and its arguments
    pending,      \* per invocation: the callback an AWS client holds
    fetched,      \* per invocation: what the S3 client handed its callback
    mailed,       \* per invocation: what the SES client handed its callback
    s3Requests,   \* per invocation: params of the s3.getObject calls
    sesRequests,  \* per invocation: params of the ses.sendEmail calls
    doneCalls,    \* per context: arguments of the context.done calls
    errorLines,   \* per invocation: first argument of each console.error
    infoLines,    \* per invocation: argument of each console.log
    evaluations,  \* per invocation: arguments of the getFileStaleResult calls
    thrown,       \* per invocation: the exception that escaped a callback
    ret           \* outcome of the last direct call of an exported function

vars == <<env, now, pc, entered, pending, fetched, mailed, s3Requests, sesRequests, doneCalls,
          errorLines, infoLines, evaluations, thrown, ret>>

NoCall == [fn |-> "none", args |-> <<>>, ret |-> Undefined, errors |-> <<>>]

InitWith(environments, clocks) ==
    /\ env \in environments
    /\ now \in clocks
    /\ pc = [i \in Invocations |-> "idle"]
    /\ entered = [i \in Invocations |-> Undefined]
    /\ pending = [i \in Invocations |-> Undefined]
    /\ fetched = [i \in Invocations |-> Undefined]
    /\ mailed = [i \in Invocations |-> Undefined]
    /\ s3Requests = [i \in Invocations |-> <<>>]
    /\ sesRequests = [i \in Invocations |-> <<>>]
    /\ doneCalls = [i \in Invocations |-> <<>>]
    /\ errorLines = [i \in Invocations |-> <<>>]
    /\ infoLines = [i \in Invocations |-> <<>>]
    /\ evaluations = [i \in Invocations |-> <<>>]
    /\ thrown = [i \in Invocations |-> Undefined]
    /\ ret = NoCall

Init == InitWith(Environments, {HandlerClock})

(***************************************************************************)
(* Effects of one synchronous run of code of invocation i: where it        *)
(* leaves the invocation and what it did on the way.                       *)
(***************************************************************************)
NoEffect ==
    [pc |-> "ended", pending |-> Undefined, errors |-> <<>>, infos |-> <<>>,
     s3 |-> <<>>, ses |-> <<>>, done |-> <<>>, evals |-> <<>>,
     thrown |-> Undefined]

\* spec.log(line): console.log when the debug flag is on.
log(line, e) == IF getDebug(e) THEN <<line>> ELSE <<>>

\* spec.logError(line, error): console.error, whatever the debug flag.
logError(line) == <<line>>

\* The calls of context.done among `calls` that reach context c.
DoneOn(c, calls) == SelectSeq(calls, LAMBDA d : d.context = Ctx(c))

Apply(i, fx) ==
    /\ pc' = [pc EXCEPT ![i] = fx.pc]
    /\ pending' = [pending EXCEPT ![i] = fx.pending]
    /\ errorLines' = [errorLines EXCEPT ![i] = @ \o fx.errors]
    /\ infoLines' = [infoLines EXCEPT ![i] = @ \o fx.infos]
    /\ s3Requests' = [s3Requests EXCEPT ![i] = @ \o fx.s3]
    /\ sesRequests' = [sesRequests EXCEPT ![i] = @ \o fx.ses]
    /\ doneCalls' = [c \in Invocations |->
                        doneCalls[c] \o
                        [k \in 1..Len(DoneOn(c, fx.done)) |->
                            [error |-> DoneOn(c, fx.done)[k].error,
                             result |-> DoneOn(c, fx.done)[k].result]]]
    /\ evaluations' = [evaluations EXCEPT ![i] = @ \o fx.evals]
    /\ thrown' = [thrown EXCEPT ![i] = fx.thrown]

(***************************************************************************)
(* The handler and its callbacks.                                          *)
(***************************************************************************)
\* Identifiers bound where the methods of `spec` run: the module's own
\* declarations (lines 5-7 and 34), the CommonJS wrapper's and the globals
\* the file uses.  The methods of the object literal `spec` are properties
\* of it, not bindings.
ModuleScope ==
    {"aws", "s3", "ses", "spec", "exports", "require", "module", "process",
     "console", "JSON", "Math", "Date", "Array", "parseFloat"}

ReferenceError(identifier) ==
    [t |-> "object", name |-> "ReferenceError",
     message |-> Str(<<identifier, " is not defined">>)]

s3GetObjectHandler(context) ==
    IF ~Truthy(context)
    THEN Fails(Lit("Error: invalid arguments for s3GetObjectHandler"))
    ELSE Returns([t |-> "function", name |-> "s3GetObjectCallback",
                  context |-> context])

\* JSON.stringify(event) of the scheduled event that triggers the function.
EventJson == <<"{", "}">>

\* exports.handler
handler(context, e) ==
    LET eventLine == log(Str(<<"Event: ">> \o EventJson), e)
        objectRequestParams == createS3GetObjectParams(getBucket(e), getFilename(e))
        callback == s3GetObjectHandler(context)
    IN  IF ~Truthy(objectRequestParams.ret)
        THEN [NoEffect EXCEPT !.infos = eventLine,
                              !.errors = objectRequestParams.errors]
        ELSE IF ~Truthy(callback.ret)
        THEN [NoEffect EXCEPT !.infos = eventLine, !.errors = callback.errors]
        ELSE [NoEffect EXCEPT !.infos = eventLine,
                              !.pc = "fetching",
                              !.pending = callback.ret,
                              !.s3 = <<objectRequestParams.ret>>]

\* spec.sendAlert(result, context) as the last statement of its caller,
\* which has logged `errors` before.
sendAlertEffect(result, context, e, errors) ==
    LET call == sendAlert(result, context, e)
    IN  IF call.ret = Undefined
        THEN [NoEffect EXCEPT !.errors = errors \o call.errors]
        ELSE [NoEffect EXCEPT !.errors = errors,
                              !.pc = "sending",
                              !.pending = call.ret.callback,
                              !.ses = <<call.ret.params>>]

\* Line 146 evaluates the arguments of spec.getFileStaleResult first; the
\* second one calls the bare identifier getStaleOlderThanDays, which throws
\* a ReferenceError unless the identifier is bound.
currencyRatesLoadSuccess(data, context, e, clock) ==
    LET currencyRates == parseJson(data.Body)
        dataAsOf == PropDataAsOf(currencyRates.ret)
        fileResult == getFileStaleResult(dataAsOf, getStaleOlderThanDays(e), clock)
        evaluated == <<[dataAsOf |-> dataAsOf,
                        staleOlderThanDays |-> getStaleOlderThanDays(e)]>>
    IN  IF ~Truthy(currencyRates.ret)
        THEN [NoEffect EXCEPT !.errors = currencyRates.errors]
        ELSE IF "getStaleOlderThanDays" \notin ModuleScope
        THEN [NoEffect EXCEPT !.pc = "threw",
                              !.thrown = ReferenceError("getStaleOlderThanDays")]
        ELSE IF fileResult.stale
        THEN [sendAlertEffect(fileResult.result, context, e,
                              <<fileResult.result.message>>)
                  EXCEPT !.evals = evaluated]
        ELSE [NoEffect EXCEPT !.evals = evaluated,
                              !.infos = log(fileResult.result.message, e),
                              !.done = <<[context |-> context, error |-> Null,
                                          result |-> fileResult.result]>>]

\* Mutant of currencyRatesLoadError: the error is logged and no alert sent.
currencyRatesLoadError_NoAlert(err, context, e) ==
    [NoEffect EXCEPT !.errors = <<err>>]

currencyRatesLoadError(err, context, e) ==
    LET result == createResult(Concat(Lit("Error reading currency rates file from S3: "),
                                      err.message))
    IN  sendAlertEffect(result, context, e, <<err>>)

\* The function s3GetObjectHandler returned, called by the S3 client.
s3GetObjectCallback(callback, err, data, e, clock) ==
    IF ~Truthy(err)
    THEN currencyRatesLoadSuccess(data, callback.context, e, clock)
    ELSE currencyRatesLoadError(err, callback.context, e)

\* Mutant of sendEmailCallback: a send error is handed to context.done.
sendEmailCallback_ErrorToDone(callback, err, e) ==
    [NoEffect EXCEPT
        !.errors = IF Truthy(err) THEN <<err>> ELSE <<>>,
        !.infos = IF Truthy(err) THEN <<>>
                  ELSE log(Concat(Concat(Lit("Alert '"), callback.result.message),
                                  Lit("' sent. ")), e),
        !.done = <<[context |-> callback.context, error |-> err,
                    result |-> callback.result]>>]

\* Mutant of sendEmailCallback: a failed send is tried again.
sendEmailCallback_Retry(callback, err, e) ==
    IF Truthy(err)
    THEN sendAlertEffect(callback.result, callback.context, e, <<err>>)
    ELSE [NoEffect EXCEPT
            !.infos = log(Concat(Concat(Lit("Alert '"), callback.result.message),
                                 Lit("' sent. ")), e),
            !.done = <<[context |-> callback.context, error |-> Null,
                        result |-> callback.result]>>]

\* Mutant of sendEmailCallback: the context is kept in one module-level
\* variable, which holds the context of the first invocation.
sendEmailCallback_SharedContext(callback, err, e) ==
    [NoEffect EXCEPT
        !.errors = IF Truthy(err) THEN <<err>> ELSE <<>>,
        !.infos = IF Truthy(err) THEN <<>>
                  ELSE log(Concat(Concat(Lit("Alert '"), callback.result.message),
                                  Lit("' sent. ")), e),
        !.done = <<[context |-> Ctx(1), error |-> Null,
                    result |-> callback.result]>>]

\* The function sendEmailHandler returned, called by the SES client.
sendEmailCallback(callback, err, e) ==
    [NoEffect EXCEPT
        !.errors = IF Truthy(err) THEN <<err>> ELSE <<>>,
        !.infos = IF Truthy(err) THEN <<>>
                  ELSE log(Concat(Concat(Lit("Alert '"), callback.result.message),
                                  Lit("' sent. ")), e),
        !.done = <<[context |-> callback.context, error |-> Null,
                    result |-> callback.result]>>]

(***************************************************************************)
(* Actions.                                                                *)
(***************************************************************************)
\* Lambda invokes the handler; the context may be missing.
Handler(i) ==
    \E context \in {Ctx(i), Undefined} :
        /\ pc[i] = "idle"
        /\ entered' = [entered EXCEPT ![i] = [fn |-> "handler", context |-> context]]
        /\ Apply(i, handler(context, env))
        /\ UNCHANGED <<env, now, fetched, mailed, ret>>

\* The S3 client answers the getObject call of invocation i.
S3GetObjectCallback(i) ==
    \E outcome \in S3Outcomes :
        /\ pc[i] = "fetching"
        /\ pending[i].name = "s3GetObjectCallback"
        /\ fetched' = [fetched EXCEPT ![i] = outcome]
        /\ Apply(i, s3GetObjectCallback(pending[i], outcome.err, outcome.data, env, now))
        /\ UNCHANGED <<env, now, entered, mailed, ret>>

\* The SES client answers the sendEmail call of invocation i.
SendEmailCallback(i) ==
    \E err \in {Null} \cup SesErrors :
        /\ pc[i] = "sending"
        /\ pending[i].name = "sendEmailCallback"
        /\ Apply(i, sendEmailCallback(pending[i], err, env))
        /\ mailed' = [mailed EXCEPT ![i] = [err |-> err]]
        /\ UNCHANGED <<env, now, entered, fetched, ret>>

Next ==
    \/ \E i \in Invocations : Handler(i)
    \/ \E i \in Invocations : S3GetObjectCallback(i)
    \/ \E i \in Invocations : SendEmailCallback(i)

Spec == Init /\ [][Next]_vars

(***************************************************************************)
(* Direct calls of the functions exported for testing (exports.spec, line  *)
(* 317), one call chain at a time on the first context.                    *)
(***************************************************************************)
\* Values a caller may pass for a text argument: missing, empty, a text.
TextArguments == {Undefined, Str(<<>>), Lit("x")}

\* The config objects handed to createSendEmailParams: each of the five
\* fields empty or set, and one with every field missing.
EmailConfigs ==
    [{RequiredProps[k] : k \in 1..Len(RequiredProps)} -> {Str(<<>>), Lit("x")}]
    \cup {[n \in {RequiredProps[k] : k \in 1..Len(RequiredProps)} |-> Undefined]}

\* The result objects handed to sendAlert.
AlertResults == {Undefined, createResult(Str(<<>>)), createResult(Lit("stale"))}

CallCreateS3GetObjectParams ==
    \E bucket \in TextArguments, key \in TextArguments :
        /\ ret' = [fn |-> "createS3GetObjectParams", args |-> <<bucket, key>>]
                  @@ createS3GetObjectParams(bucket, key)
        /\ UNCHANGED <<env, now, pc, entered, pending, fetched, mailed,
                       s3Requests, sesRequests, doneCalls, errorLines,
                       infoLines, evaluations, thrown>>

CallCreateSendEmailParams ==
    \E config \in EmailConfigs :
        /\ ret' = [fn |-> "createSendEmailParams", args |-> <<config>>]
                  @@ createSendEmailParams(config)
        /\ UNCHANGED <<env, now, pc, entered, pending, fetched, mailed,
                       s3Requests, sesRequests, doneCalls, errorLines,
                       infoLines, evaluations, thrown>>

CallSendAlert(i) ==
    \E result \in AlertResults, context \in {Ctx(i), Undefined} :
        /\ pc[i] = "idle"
        /\ entered' = [entered EXCEPT
                          ![i] = [fn |-> "sendAlert", result |-> result,
                                  context |-> context]]
        /\ Apply(i, sendAlertEffect(result, context, env, <<>>))
        /\ UNCHANGED <<env, now, fetched, mailed, ret>>

InitExported == InitWith(Environments, {HandlerClock})

NextExported ==
    \/ Handler(1)
    \/ S3GetObjectCallback(1)
    \/ SendEmailCallback(1)
    \/ CallSendAlert(1)
    \/ CallCreateSendEmailParams
    \/ CallCreateS3GetObjectParams

SpecExported == InitExported /\ [][NextExported]_vars

(***************************************************************************)
(* Direct calls of the pure staleness evaluator, at clock values around    *)
(* every half day from the file's date.                                    *)
(***************************************************************************)
HalfDay == MsPerDay \div 2

\* Clock values: each half day up to past the largest threshold, and the
\* milliseconds next to it.
PureClocks ==
    {k * HalfDay + d : k \in 0..(2 * (MaxThresholdDays + 2)), d \in {-1, 0, 1}}

\* dataAsOf arguments: 1 and 2 January 1970, a text that is no date, and a
\* missing field.
PureDataAsOf == {DateText(1), DateText(2), Lit("yesterday"), Undefined}

\* Threshold arguments: whole days, one and a half days, a negative one.
PureThresholds ==
    {Days(d) : d \in 0..MaxThresholdDays} \cup {Num(15), Days(-1)}

CallGetFileStaleResult ==
    \E dataAsOf \in PureDataAsOf, staleOlderThanDays \in PureThresholds :
        /\ ret' = [fn |-> "getFileStaleResult",
                   args |-> <<dataAsOf, staleOlderThanDays>>,
                   ret |-> getFileStaleResult(dataAsOf, staleOlderThanDays, now),
                   errors |-> <<>>]
        /\ UNCHANGED <<env, now, pc, entered, pending, fetched, mailed,
                       s3Requests, sesRequests, doneCalls, errorLines,
                       infoLines, evaluations, thrown>>

\* Date arguments of daysDifference: the first at 1 or 3 January 1970, the
\* second at every clock value, so that the difference runs through the
\* half days on both sides of zero.
PureFirstDates == {DateAt(0), DateAt(2 * MsPerDay)}
PureSecondDates == {DateAt(c) : c \in PureClocks}

\* A caller takes the difference both ways round: ret.ret is
\* daysDifference(first, second), ret.reverse daysDifference(second, first).
CallDaysDifference ==
    \E first \in PureFirstDates, second \in PureSecondDates :
        /\ ret' = [fn |-> "daysDifference", args |-> <<first, second>>,
                   ret |-> daysDifference(first, second),
                   reverse |-> daysDifference(second, first),
                   errors |-> <<>>]
        /\ UNCHANGED <<env, now, pc, entered, pending, fetched, mailed,
                       s3Requests, sesRequests, doneCalls, errorLines,
                       infoLines, evaluations, thrown>>

InitPure == InitWith({EnvUnset}, PureClocks)

NextPure ==
    \/ CallGetFileStaleResult
    \/ CallDaysDifference

SpecPure == InitPure /\ [][NextPure]_vars


(***************************************************************************)
(* Direct calls of the configuration getters and of the two loggers,       *)
(* under process.env with one variable set at a time, and of sendAlert,    *)
(* whose email carries the configured subject and addresses.               *)
(***************************************************************************)
\* Texts a variable may be set to: empty, a text of its kind and, where
\* the code parses or compares the text, numbers and other flags.
ConfigTexts(n) ==
    CASE n = "DEBUG" -> {Str(<<>>), Lit("0"), Lit("1"), Lit("true")}
      [] n = "S3_BUCKET" -> {Str(<<>>), Lit("my.bucket")}
      [] n = "S3_FILENAME" -> {Str(<<>>), Lit("rates.json")}
      [] n = "ALERT_FROM" -> {Str(<<>>), Lit("from@example.org")}
      [] n = "ALERT_TO" -> {Str(<<>>), Lit("to@example.org")}
      [] n = "STALE_OLDER_THAN_DAYS" ->
            {Str(<<>>), Str(<<"3">>), Str(<<"1", ".", "5">>), Str(<<"0">>),
             Str(<<"-", "1">>), Str(<<" ", "4">>), Lit("abc")}
      [] n = "ALERT_SUBJECT" ->
            {Str(<<>>), Lit("Rates are stale"), Str(<<"7">>)}

ConfigEnvironments ==
    Environments
    \cup UNION {{[EnvUnset EXCEPT ![n] = v] : v \in ConfigTexts(n)} : n \in EnvNames}

GetterNames ==
    {"getDebug", "getBucket", "getFilename", "getAlertFrom", "getAlertTo",
     "getStaleOlderThanDays", "getAlertSubject"}

\* spec[name]() under process.env e.
CallOfGetter(name, e) ==
    CASE name = "getDebug" -> Bool(getDebug(e))
      [] name = "getBucket" -> getBucket(e)
      [] name = "getFilename" -> getFilename(e)
      [] name = "getAlertFrom" -> getAlertFrom(e)
      [] name = "getAlertTo" -> getAlertTo(e)
      [] name = "getStaleOlderThanDays" -> getStaleOlderThanDays(e)
      [] name = "getAlertSubject" -> getAlertSubject(e)

UnchangedInvocations ==
    UNCHANGED <<env, now, pc, entered, pending, fetched, mailed, s3Requests,
                sesRequests, doneCalls, errorLines, infoLines, evaluations,
                thrown>>

CallGetter ==
    \E name \in GetterNames :
        /\ ret' = [fn |-> name, args |-> <<>>, ret |-> CallOfGetter(name, env),
                   errors |-> <<>>]
        /\ UnchangedInvocations

\* spec.log(line): ret.infos holds what reached console.log.
CallLog ==
    \E line \in {Lit("an informational line")} :
        /\ ret' = [fn |-> "log", args |-> <<line>>, ret |-> Undefined,
                   errors |-> <<>>, infos |-> log(line, env)]
        /\ UnchangedInvocations

\* spec.logError(line): ret.errors holds what reached console.error.
CallLogError ==
    \E line \in {Lit("an error line")} :
        /\ ret' = [fn |-> "logError", args |-> <<line>>, ret |-> Undefined,
                   errors |-> logError(line), infos |-> <<>>]
        /\ UnchangedInvocations

InitConfig == InitWith(ConfigEnvironments, {HandlerClock})

NextConfig ==
    \/ CallGetter
    \/ CallLog
    \/ CallLogError
    \/ CallSendAlert(1)
    \/ SendEmailCallback(1)

SpecConfig == InitConfig /\ [][NextConfig]_vars

(***************************************************************************)
(* One handler run next to direct calls of the staleness evaluator, at    *)
(* the handler's clock.                                                    *)
(***************************************************************************)
InitTimestamp == InitWith(Environments, {HandlerClock})

NextTimestamp ==
    \/ Handler(1)
    \/ S3GetObjectCallback(1)
    \/ SendEmailCallback(1)
    \/ CallGetFileStaleResult

SpecTimestamp == InitTimestamp /\ [][NextTimestamp]_vars

(***************************************************************************)
(* One handler run under every assignment of the environment variables:   *)
(* each one unset, empty or set to a text of its kind.                     *)
(***************************************************************************)
\* The values a variable is assigned: unset, and the texts of ConfigTexts
\* (for ALERT_SUBJECT the text "0" too, which parses to the falsy 0; for
\* DEBUG and STALE_OLDER_THAN_DAYS, which no builder is passed, one text).
AssignedValues(n) ==
    {Undefined} \cup
    CASE n = "DEBUG" -> {Lit("0")}
      [] n = "STALE_OLDER_THAN_DAYS" -> {Str(<<>>)}
      [] n = "ALERT_SUBJECT" -> ConfigTexts(n) \cup {Str(<<"0">>)}
      [] OTHER -> ConfigTexts(n)

AssignedEnvironments ==
    [DEBUG : AssignedValues("DEBUG"),
     S3_BUCKET : AssignedValues("S3_BUCKET"),
     S3_FILENAME : AssignedValues("S3_FILENAME"),
     ALERT_FROM : AssignedValues("ALERT_FROM"),
     ALERT_TO : AssignedValues("ALERT_TO"),
     STALE_OLDER_THAN_DAYS : AssignedValues("STALE_OLDER_THAN_DAYS"),
     ALERT_SUBJECT : AssignedValues("ALERT_SUBJECT")]

InitAssigned == InitWith(AssignedEnvironments, {HandlerClock})

NextAssigned ==
    \/ Handler(1)
    \/ S3GetObjectCallback(1)
    \/ SendEmailCallback(1)

SpecAssigned == InitAssigned /\ [][NextAssigned]_vars

(***************************************************************************)
(* Properties.                                                             *)
(***************************************************************************)
\* Invocation i came in through exports.handler.
EnteredHandler(i) == entered[i] # Undefined /\ entered[i].fn = "handler"

\* Invocation i came in through a direct call of spec.sendAlert.
EnteredSendAlert(i) == entered[i] # Undefined /\ entered[i].fn = "sendAlert"

\* No callback of invocation i is outstanding any more.
Ended(i) == pc[i] \in {"ended", "threw"}

FetchFailed(i) == fetched[i] # Undefined /\ Truthy(fetched[i].err)

FetchSucceeded(i) == fetched[i] # Undefined /\ ~Truthy(fetched[i].err)

FetchedBody(i) == fetched[i].data.Body

\* The fetched body of invocation i parsed to a value that passes the
\* check of line 142.
FetchedParsedBody(i) ==
    /\ FetchSucceeded(i)
    /\ JsonParse(FetchedBody(i).s).ok
    /\ Truthy(JsonParse(FetchedBody(i).s).value)

\* The fetched body of invocation i is a rates file with a dataAsOf that
\* is a date.
FetchedDatedFile(i) ==
    /\ FetchSucceeded(i)
    /\ JsonParse(FetchedBody(i).s).ok
    /\ Truthy(JsonParse(FetchedBody(i).s).value)
    /\ IsValidDate(NewDate(PropDataAsOf(JsonParse(FetchedBody(i).s).value)))

FetchedDataAsOf(i) == PropDataAsOf(JsonParse(FetchedBody(i).s).value)

\* The day difference between now and the fetched file's dataAsOf exceeds
\* the configured threshold.
FetchedFileIsOld(i) ==
    Greater(daysDifference(NewDate(FetchedDataAsOf(i)), DateAt(now)),
            getStaleOlderThanDays(env))

\* C1: for an invocation of handler with a context, context.done is never
\* called more than once, and once the invocation has no callback left it
\* has been called exactly once whenever the fetch failed or the fetched
\* body parsed (the parse-failure path being the early return of lines
\* 142-144, a body counts as parsed when parseJson returned a value that
\* passes that check).
C1_DoneExactlyOnce ==
    \A i \in Invocations :
        (EnteredHandler(i) /\ Truthy(entered[i].context)) =>
            /\ Len(doneCalls[i]) <= 1
            /\ (Ended(i) /\ (FetchFailed(i) \/ FetchedParsedBody(i)))
               => Len(doneCalls[i]) = 1

\* C2: when the fetch succeeded with a dated rates file that is not older
\* than the threshold, the invocation ends with context.done(null, result)
\* carrying the "found not to be stale" message, and no email is sent.
C2_NotStaleCompletes ==
    \A i \in Invocations :
        (EnteredHandler(i) /\ Ended(i) /\ FetchedDatedFile(i) /\ ~FetchedFileIsOld(i)) =>
            /\ doneCalls[i] =
                 <<[error |-> Null,
                    result |-> [t |-> "object",
                                message |->
                                    Str(<<"The Prebid currency rates conversion data has a timestamp of ">>
                                        \o FetchedDataAsOf(i).s
                                        \o <<", found not to be stale.">>)]]>>
            /\ sesRequests[i] = <<>>

\* C3: when the fetch succeeded with a dated rates file older than the
\* threshold, ses.sendEmail has been called exactly once with the "stale
\* timestamp of <dataAsOf>" text, and once the send callback has fired
\* context.done has been called with that stale result.
C3_StaleAlerts ==
    \A i \in Invocations :
        (EnteredHandler(i) /\ FetchedDatedFile(i) /\ FetchedFileIsOld(i)) =>
            /\ Len(sesRequests[i]) = 1
            /\ sesRequests[i][1].Message.Body.Text.Data = StaleMessage(FetchedDataAsOf(i))
            /\ Ended(i) =>
                 doneCalls[i] =
                   <<[error |-> Null,
                      result |-> createResult(StaleMessage(FetchedDataAsOf(i)))]>>

\* The text currencyRatesLoadError is to alert with for invocation i.
C4_Text(i) ==
    Str(<<"Error reading currency rates file from S3: ">> \o fetched[i].err.message.s)

\* C4: when the S3 callback received an error, the staleness evaluator has
\* not run, ses.sendEmail has been called exactly once with the text
\* 'Error reading currency rates file from S3: ' + err.message, and once
\* the send callback has fired (not before) context.done(null, {message:
\* that text}) has been called.
C4_FetchErrorAlerts ==
    \A i \in Invocations :
        (EnteredHandler(i) /\ FetchFailed(i)) =>
            /\ evaluations[i] = <<>>
            /\ Len(sesRequests[i]) = 1
            /\ sesRequests[i][1].Message.Body.Text.Data = C4_Text(i)
            /\ pc[i] \in {"sending", "ended"}
            /\ pc[i] = "sending" => doneCalls[i] = <<>>
            /\ pc[i] = "ended" =>
                 doneCalls[i] = <<[error |-> Null,
                                   result |-> [t |-> "object", message |-> C4_Text(i)]]>>

C4_Witness ==
    \E i \in Invocations :
        /\ EnteredHandler(i) /\ FetchFailed(i)
        /\ fetched[i].err.message = Lit("access denied")
        /\ pc[i] = "ended"
        /\ Len(doneCalls[i]) = 1

\* C5: every call of context.done passes null as its error; the step in
\* which the send callback fires calls context.done once with the result
\* the callback was created for, whatever the send outcome; so after a
\* failed send context.done has been called exactly once, with a null
\* error and the result whose message went into the email.
C5_SendFailureStillCompletes ==
    /\ [](\A i \in Invocations :
            /\ \A k \in 1..Len(doneCalls[i]) : doneCalls[i][k].error = Null
            /\ (mailed[i] # Undefined /\ Truthy(mailed[i].err)) =>
                 /\ Len(doneCalls[i]) = 1
                 /\ doneCalls[i][1].result.message
                      = sesRequests[i][1].Message.Body.Text.Data)
    /\ [][\A i \in Invocations :
            (pc[i] = "sending" /\ pc'[i] # "sending") =>
                doneCalls'[i] = doneCalls[i]
                                \o <<[error |-> Null, result |-> pending[i].result]>>]_vars

C5_Witness ==
    \E i \in Invocations :
        /\ mailed[i] # Undefined /\ Truthy(mailed[i].err)
        /\ Len(doneCalls[i]) = 1
        /\ pc[i] = "ended"

\* C6: when the fetched body is not valid JSON, the invocation ends there:
\* the staleness evaluator has not run, no email has been sent, context.done
\* has not been called, and exactly one error line has been logged.
C6_ParseFailureSilent ==
    \A i \in Invocations :
        (EnteredHandler(i) /\ FetchSucceeded(i) /\ ~JsonParse(FetchedBody(i).s).ok) =>
            /\ pc[i] = "ended"
            /\ evaluations[i] = <<>>
            /\ sesRequests[i] = <<>>
            /\ doneCalls[i] = <<>>
            /\ Len(errorLines[i]) = 1

C6_Witness ==
    \E i \in Invocations :
        /\ EnteredHandler(i) /\ FetchSucceeded(i)
        /\ FetchedBody(i) = Lit("not json")
        /\ pc[i] = "ended"
        /\ Len(errorLines[i]) = 1

\* C7: within one invocation s3.getObject and ses.sendEmail are each
\* called at most once, ses.sendEmail only after the S3 callback has fired,
\* and after the send callback has fired (failed or not) no send is
\* outstanding or has been added.
C7_OneFetchOneSend ==
    \A i \in Invocations :
        /\ Len(s3Requests[i]) <= 1
        /\ Len(sesRequests[i]) <= 1
        /\ sesRequests[i] # <<>> => fetched[i] # Undefined
        /\ mailed[i] # Undefined => (pc[i] = "ended" /\ Len(sesRequests[i]) = 1)

C7_Witness ==
    \E i \in Invocations :
        /\ mailed[i] # Undefined /\ Truthy(mailed[i].err)
        /\ pc[i] = "ended"
        /\ Len(s3Requests[i]) = 1
        /\ Len(sesRequests[i]) = 1

\* Milliseconds from the dataAsOf argument of the last getFileStaleResult
\* call to the clock.
C8_Elapsed == now - NewDate(ret.args[1]).ms

\* The whole number r of days with r - 1/2 <= D < r + 1/2, for D the
\* elapsed time in days.
C8_RoundedDays ==
    CHOOSE r \in -3..8 :
        /\ 2 * r * MsPerDay - MsPerDay <= 2 * C8_Elapsed
        /\ 2 * C8_Elapsed < 2 * r * MsPerDay + MsPerDay

\* C8: for every threshold T and every dataAsOf that is a date D days
\* before now, getFileStaleResult returns stale = true exactly when
\* round(D) > T (not when round(D) = T), and the record it returns carries
\* the stale flag and a result with a message either way.
C8_StaleIffRoundedDaysExceed ==
    (ret.fn = "getFileStaleResult" /\ IsValidDate(NewDate(ret.args[1]))) =>
        /\ ret.ret.stale = (C8_RoundedDays * 10 > ret.args[2].x10)
        /\ (C8_RoundedDays * 10 = ret.args[2].x10) => ret.ret.stale = FALSE
        /\ DOMAIN ret.ret = {"stale", "result"}
        /\ Truthy(ret.ret.result.message)

\* The file is more than T whole days old, yet rounds to T: not stale.
C8_Witness ==
    /\ ret.fn = "getFileStaleResult"
    /\ IsValidDate(NewDate(ret.args[1]))
    /\ ret.args[2] = Days(2)
    /\ C8_Elapsed > 2 * MsPerDay
    /\ C8_RoundedDays = 2
    /\ ~ret.ret.stale

\* The order in which the claim has the five fields checked.
C9_Order == <<"alertTo", "alertSubject", "alertFrom", "alertReplyTo", "message">>

\* C9: createSendEmailParams returns undefined whenever one of alertTo,
\* alertSubject, alertFrom, alertReplyTo, message is empty, and logs one
\* line, naming the first empty field in that order; and a sendAlert call
\* whose configuration has an empty field has called neither ses.sendEmail
\* nor context.done.
C9_MissingFieldAborts ==
    /\ ret.fn = "createSendEmailParams" =>
         LET config == ret.args[1]
             empty == {k \in 1..5 : ~Truthy(config[C9_Order[k]])}
         IN  empty # {} =>
                /\ ret.ret = Undefined
                /\ ret.errors =
                     <<Str(<<"Error: missing required argument for createSendEmailParams:",
                             C9_Order[CHOOSE k \in empty : \A j \in empty : k <= j]>>)>>
    /\ \A i \in Invocations :
         (/\ EnteredSendAlert(i)
          /\ Truthy(entered[i].result)
          /\ \/ ~Truthy(getAlertTo(env))
             \/ ~Truthy(getAlertSubject(env))
             \/ ~Truthy(getAlertFrom(env))
             \/ ~Truthy(entered[i].result.message)) =>
            /\ pc[i] = "ended"
            /\ sesRequests[i] = <<>>
            /\ doneCalls[i] = <<>>

C9_Witness ==
    /\ ret.fn = "createSendEmailParams"
    /\ ret.ret = Undefined
    /\ Truthy(ret.args[1].alertTo)
    /\ ~Truthy(ret.args[1].alertSubject)
    /\ ~Truthy(ret.args[1].message)
    /\ \E i \in Invocations :
         /\ EnteredSendAlert(i)
         /\ entered[i].result = createResult(Str(<<>>))
         /\ Truthy(entered[i].context)
         /\ pc[i] = "ended"

\* C10: createS3GetObjectParams(bucket, key) returns undefined and logs an
\* error whenever bucket or key is empty, and {Bucket: bucket, Key: key}
\* otherwise; and a handler call for which it returns undefined, or whose
\* context is missing, has returned without calling s3.getObject,
\* ses.sendEmail or context.done.
C10_MissingArgumentsAbort ==
    /\ ret.fn = "createS3GetObjectParams" =>
         IF ~Truthy(ret.args[1]) \/ ~Truthy(ret.args[2])
         THEN ret.ret = Undefined /\ Len(ret.errors) = 1
         ELSE /\ ret.ret = [t |-> "object", Bucket |-> ret.args[1], Key |-> ret.args[2]]
              /\ ret.errors = <<>>
    /\ \A i \in Invocations :
         (/\ EnteredHandler(i)
          /\ \/ createS3GetObjectParams(getBucket(env), getFilename(env)).ret = Undefined
             \/ ~Truthy(entered[i].context)) =>
            /\ pc[i] = "ended"
            /\ s3Requests[i] = <<>>
            /\ sesRequests[i] = <<>>
            /\ \A c \in Invocations : doneCalls[c] = <<>>

C10_Witness ==
    /\ ret.fn = "createS3GetObjectParams"
    /\ Truthy(ret.args[1])
    /\ ret.args[2] = Str(<<>>)
    /\ ret.ret = Undefined
    /\ \E i \in Invocations :
         /\ EnteredHandler(i)
         /\ entered[i].context = Undefined
         /\ pc[i] = "ended"
         /\ errorLines[i] = <<Lit("Error: invalid arguments for s3GetObjectHandler")>>

\* The value the claim has a string getter return: the variable's text
\* when it is set and not empty, the default otherwise.
C11_Configured(value, default) ==
    IF value # Undefined /\ value.s # <<>> THEN value ELSE default

\* C11: each of getBucket, getFilename, getAlertFrom, getAlertTo and
\* getAlertSubject returns its environment variable's text when that is set
\* and not empty and its default otherwise, and the subject of an alert
\* email is the ALERT_SUBJECT text when one is set.
C11_GettersReturnConfiguredText ==
    /\ ret.fn = "getBucket" =>
         ret.ret = C11_Configured(env.S3_BUCKET, Lit("currency.prebid.org"))
    /\ ret.fn = "getFilename" =>
         ret.ret = C11_Configured(env.S3_FILENAME, Lit("latest.json"))
    /\ ret.fn = "getAlertFrom" =>
         ret.ret = C11_Configured(env.ALERT_FROM, Lit("alerts@prebid.org"))
    /\ ret.fn = "getAlertTo" =>
         ret.ret = C11_Configured(env.ALERT_TO, Lit("alerts@prebid.org"))
    /\ ret.fn = "getAlertSubject" =>
         ret.ret = C11_Configured(env.ALERT_SUBJECT,
                                  Lit("ALERT: Prebid Currency Rates File Monitor"))
    /\ \A i \in Invocations :
         sesRequests[i] # <<>> =>
            sesRequests[i][1].Message.Subject.Data
              = C11_Configured(env.ALERT_SUBJECT,
                               Lit("ALERT: Prebid Currency Rates File Monitor"))

\* C12: getStaleOlderThanDays returns a positive number for every value of
\* STALE_OLDER_THAN_DAYS: the parsed value when that is a positive number,
\* and 2 when the variable is absent, not a number, zero or negative.
C12_ThresholdIsPositive ==
    ret.fn = "getStaleOlderThanDays" =>
        LET parsed == parseFloat(env.STALE_OLDER_THAN_DAYS)
        IN  /\ ret.ret.t = "number"
            /\ ret.ret.x10 > 0
            /\ ret.ret = IF parsed.t = "number" /\ parsed.x10 > 0
                         THEN parsed
                         ELSE Days(2)

\* What the loggers are to do given the value of the debug flag.
C14_Loggers(flag) ==
    /\ ret.fn = "log" => ret.infos = (IF flag THEN ret.args ELSE <<>>)
    /\ ret.fn = "log" => ret.errors = <<>>
    /\ ret.fn = "logError" => ret.errors = ret.args

\* C14 as stated: the debug flag is true when DEBUG is unset and false only
\* when DEBUG is set to a falsy value, log emits its line exactly when the
\* flag is true, and logError emits its line on every call.
C14_DebugOffOnlyWhenFalsy ==
    /\ ret.fn = "getDebug" =>
         ret.ret = Bool(env.DEBUG = Undefined \/ Truthy(env.DEBUG))
    /\ C14_Loggers(env.DEBUG = Undefined \/ Truthy(env.DEBUG))

\* C14, amended: the debug flag is true when DEBUG is unset or is exactly
\* '1' and false for every other value it is set to ('true', '0', the empty
\* text); log emits its line exactly when the flag is true, and logError
\* emits its line on every call.
C14_DebugOnWhenUnsetOrOne ==
    /\ ret.fn = "getDebug" =>
         ret.ret = Bool(env.DEBUG = Undefined \/ env.DEBUG = Str(<<"1">>))
    /\ C14_Loggers(env.DEBUG = Undefined \/ env.DEBUG = Str(<<"1">>))

\* DEBUG is 'true' and log has dropped its line.
C14_Witness ==
    /\ env.DEBUG = Lit("true")
    /\ ret.fn = "log"
    /\ ret.infos = <<>>

\* C13: the request handed to ses.sendEmail has the one-element list
\* [recipient] as its destination addresses, the list [sender] as its
\* reply-to addresses, the sender as its source, and a subject and a body
\* text with charset UTF-8 that carry the configured subject and the
\* result's message.
C13_EmailRequestShape ==
    \A i \in Invocations :
        (sesRequests[i] # <<>> /\ FetchFailed(i)) =>
            LET request == sesRequests[i][1]
            IN  /\ request.Destination.ToAddresses = Array(<<getAlertTo(env)>>)
                /\ request.ReplyToAddresses = Array(<<getAlertFrom(env)>>)
                /\ request.Source = getAlertFrom(env)
                /\ request.Message.Subject
                     = [Data |-> getAlertSubject(env), Charset |-> "UTF-8"]
                /\ request.Message.Body.Text
                     = [Data |-> C4_Text(i), Charset |-> "UTF-8"]

\* Milliseconds from the first to the second argument of the last
\* daysDifference call.
C15_Elapsed == ret.args[2].ms - ret.args[1].ms

\* C15 as stated: daysDifference(first, second) is (second - first) in
\* days rounded to the nearest whole day, an exact half rounded away from
\* zero on both sides (+0.5 -> 1, -0.5 -> -1, -1.5 -> -2).
C15_RoundsHalfAwayFromZero ==
    ret.fn = "daysDifference" =>
        \E r \in -4..8 :
            /\ ret.ret = Days(r)
            /\ IF C15_Elapsed >= 0
               THEN /\ 2 * r * MsPerDay - MsPerDay <= 2 * C15_Elapsed
                    /\ 2 * C15_Elapsed < 2 * r * MsPerDay + MsPerDay
               ELSE /\ 2 * r * MsPerDay - MsPerDay < 2 * C15_Elapsed
                    /\ 2 * C15_Elapsed <= 2 * r * MsPerDay + MsPerDay

\* C15, amended: daysDifference(first, second) is (second - first) in days
\* rounded to the nearest whole day, an exact half rounded up, towards
\* plus infinity (+0.5 -> 1, -0.5 -> 0, -1.5 -> -1).
C15_RoundsHalfUp ==
    ret.fn = "daysDifference" =>
        \E r \in -4..8 :
            /\ ret.ret = Days(r)
            /\ 2 * r * MsPerDay - MsPerDay <= 2 * C15_Elapsed
            /\ 2 * C15_Elapsed < 2 * r * MsPerDay + MsPerDay

\* The second date is a day and a half before the first: -1.5 -> -1.
C15_Witness ==
    /\ ret.fn = "daysDifference"
    /\ C15_Elapsed = -(MsPerDay + HalfDay)
    /\ ret.ret = Days(-1)

\* C16 as stated: daysDifference(a, b) = -daysDifference(b, a) for every
\* pair of instants.
C16_Antisymmetric ==
    ret.fn = "daysDifference" => ret.ret.x10 = -ret.reverse.x10

\* C16, amended: daysDifference(a, b) = -daysDifference(b, a) for every
\* pair of instants whose distance is not an odd multiple of half a day;
\* when it is, both halves are rounded up and the two results add up to 1.
C16_AntisymmetricOffTies ==
    ret.fn = "daysDifference" =>
        IF C15_Elapsed % MsPerDay = HalfDay
        THEN ret.ret.x10 + ret.reverse.x10 = 10
        ELSE ret.ret.x10 = -ret.reverse.x10

\* Half a day backwards: 0 one way round, 1 the other.
C16_Witness ==
    /\ ret.fn = "daysDifference"
    /\ C15_Elapsed = -HalfDay
    /\ ret.ret = Days(0)
    /\ ret.reverse = Days(1)

\* The result invocation i is to complete with, from its own fetch outcome.
C17_OwnResult(i) ==
    IF FetchFailed(i)
    THEN createResult(C4_Text(i))
    ELSE getFileStaleResult(FetchedDataAsOf(i), getStaleOlderThanDays(env), now).result

\* Invocations i and j were given the same inputs so far: called or not,
\* with or without a context, and the same answers from S3 and SES.
C17_SameInputs(i, j) ==
    /\ (entered[i] = Undefined) = (entered[j] = Undefined)
    /\ entered[i] # Undefined =>
         Truthy(entered[i].context) = Truthy(entered[j].context)
    /\ fetched[i] = fetched[j]
    /\ mailed[i] = mailed[j]

\* C17: with invocations in flight together and their callbacks
\* interleaved in any order, each context's done is called at most once
\* and only with the result of that invocation's own fetch outcome, each
\* email carries its own invocation's message, and what an invocation has
\* done is determined by its own inputs alone: two invocations given the
\* same inputs are in the same position with the same calls made, however
\* far the other ones have got.
C17_InvocationsIndependent ==
    /\ \A i \in Invocations :
         /\ Len(doneCalls[i]) <= 1
         /\ \A k \in 1..Len(doneCalls[i]) :
              /\ fetched[i] # Undefined
              /\ doneCalls[i][k].result = C17_OwnResult(i)
         /\ \A k \in 1..Len(sesRequests[i]) :
              /\ fetched[i] # Undefined
              /\ sesRequests[i][k].Message.Body.Text.Data = C17_OwnResult(i).message
    /\ \A i, j \in Invocations :
         C17_SameInputs(i, j) =>
            /\ pc[i] = pc[j]
            /\ doneCalls[i] = doneCalls[j]
            /\ sesRequests[i] = sesRequests[j]
            /\ s3Requests[i] = s3Requests[j]
            /\ errorLines[i] = errorLines[j]
            /\ infoLines[i] = infoLines[j]
            /\ thrown[i] = thrown[j]

\* Two invocations got different S3 errors; one has completed, after a
\* failed send, while the other's email is still in flight.
C17_Witness ==
    \E i, j \in Invocations :
        /\ i # j
        /\ FetchFailed(i) /\ FetchFailed(j)
        /\ fetched[i].err # fetched[j].err
        /\ pc[i] = "sending"
        /\ pc[j] = "ended"
        /\ Truthy(mailed[j].err)
        /\ doneCalls[j] = <<[error |-> Null, result |-> createResult(C4_Text(j))]>>
        /\ doneCalls[i] = <<>>

\* The fetched body of invocation i parsed to a value that passes the
\* check of line 142 and whose dataAsOf is missing or is no date.
C18_FetchedUndatedFile(i) ==
    /\ FetchedParsedBody(i)
    /\ ~IsValidDate(NewDate(FetchedDataAsOf(i)))

\* C18: getFileStaleResult, given a dataAsOf that is missing or is no
\* date, returns stale = false with the 'found not to be stale' message
\* whatever the threshold; and a handler run that fetched a file whose
\* dataAsOf is missing or is no date has sent no email, the evaluation of
\* that file against the configured threshold being "not stale".
C18_UndatedNeverStale ==
    /\ (/\ ret.fn = "getFileStaleResult"
        /\ ~IsValidDate(NewDate(ret.args[1]))) =>
            /\ ret.ret.stale = FALSE
            /\ ret.ret.result = createResult(NotStaleMessage(ret.args[1]))
    /\ \A i \in Invocations :
         (EnteredHandler(i) /\ C18_FetchedUndatedFile(i)) =>
            /\ sesRequests[i] = <<>>
            /\ getFileStaleResult(FetchedDataAsOf(i), getStaleOlderThanDays(env),
                                  now).stale = FALSE

\* The handler fetched a file whose dataAsOf is no date and has no
\* callback left, and the evaluator was called without a dataAsOf and a
\* threshold of zero days.
C18_Witness ==
    /\ EnteredHandler(1)
    /\ FetchSucceeded(1)
    /\ FetchedBody(1) = RatesFile(Lit("yesterday"))
    /\ Ended(1)
    /\ ret.fn = "getFileStaleResult"
    /\ ret.args = <<Undefined, Days(0)>>
    /\ ret.ret.stale = FALSE

\* The fetched body of invocation i is valid JSON whose value is falsy.
C19_FetchedFalsyValue(i) ==
    /\ FetchSucceeded(i)
    /\ JsonParse(FetchedBody(i).s).ok
    /\ ~Truthy(JsonParse(FetchedBody(i).s).value)

\* What the S3 callback leaves behind on a falsy value: no error line, no
\* staleness evaluation, no email, no call of context.done, nothing thrown
\* and no callback outstanding.
C19_EndsSilently(i) ==
    /\ pc[i] = "ended"
    /\ errorLines[i] = <<>>
    /\ evaluations[i] = <<>>
    /\ sesRequests[i] = <<>>
    /\ doneCalls[i] = <<>>
    /\ thrown[i] = Undefined

\* C19 as stated: a handler run whose fetched body is valid JSON with a
\* falsy value ends without an error, an evaluation, an email or a call of
\* context.done, and with no log line at all.
C19_FalsyValueNoLogLine ==
    \A i \in Invocations :
        (EnteredHandler(i) /\ C19_FetchedFalsyValue(i)) =>
            /\ C19_EndsSilently(i)
            /\ infoLines[i] = <<>>

\* C19, amended: a handler run whose fetched body is valid JSON with a
\* falsy value ends without an error line, an evaluation, an email or a
\* call of context.done; the only line it has logged is the 'Event: ...'
\* line of the handler's entry (line 17), present when debug is on.
C19_FalsyValueOnlyEventLine ==
    \A i \in Invocations :
        (EnteredHandler(i) /\ C19_FetchedFalsyValue(i)) =>
            /\ C19_EndsSilently(i)
            /\ infoLines[i] = log(Str(<<"Event: ">> \o EventJson), env)

\* A handler run with debug on fetched the body `null` and has ended with
\* the 'Event: ...' line as its only line.
C19_Witness ==
    \E i \in Invocations :
        /\ EnteredHandler(i)
        /\ FetchSucceeded(i)
        /\ FetchedBody(i) = Str(<<"null">>)
        /\ getDebug(env)
        /\ pc[i] = "ended"
        /\ Len(infoLines[i]) = 1
        /\ errorLines[i] = <<>>
        /\ doneCalls[i] = <<>>

\* The error lines of the two builders' missing-argument branches (lines
\* 106-109 and 250-256) and of sendAlert's abort on the latter (line 229).
C20_IsMissingArgumentLine(line) ==
    /\ line.t = "string"
    /\ \/ line = Lit("Error: missing argument for createS3GetObjectParams")
       \/ line = Lit("Error missing argument for sendAlert")
       \/ /\ line.s # <<>>
          /\ line.s[1] = "Error: missing required argument for createSendEmailParams:"

\* C20: under every assignment of the environment variables the values
\* handler and sendAlert hand to the two builders are truthy, so a handler
\* run never logs a missing-argument line of the builders; it calls
\* s3.getObject exactly when it was given a context, and after a failed
\* fetch it has sent one email whose addresses and subject are set and
\* whose message is a non-empty text.
C20_BuildersNeverAbort ==
    /\ Truthy(getBucket(env)) /\ Truthy(getFilename(env))
    /\ Truthy(getAlertTo(env)) /\ Truthy(getAlertFrom(env))
    /\ Truthy(getAlertSubject(env))
    /\ \A i \in Invocations :
         EnteredHandler(i) =>
            /\ \A k \in 1..Len(errorLines[i]) :
                 ~C20_IsMissingArgumentLine(errorLines[i][k])
            /\ (Len(s3Requests[i]) = 1) = Truthy(entered[i].context)
            /\ s3Requests[i] = <<>> =>
                 errorLines[i] = <<Lit("Error: invalid arguments for s3GetObjectHandler")>>
            /\ FetchFailed(i) =>
                 /\ Len(sesRequests[i]) = 1
                 /\ Truthy(sesRequests[i][1].Destination.ToAddresses)
                 /\ Truthy(sesRequests[i][1].Source)
                 /\ Truthy(sesRequests[i][1].Message.Subject.Data)
                 /\ sesRequests[i][1].Message.Body.Text.Data.t = "string"
                 /\ sesRequests[i][1].Message.Body.Text.Data.s # <<>>

\* With every address and name set to the empty text and the subject to
\* "0", a handler run fetched, the fetch failed and the email went out
\* with the default addresses and subject.
C20_Witness ==
    /\ env.S3_BUCKET = Str(<<>>) /\ env.S3_FILENAME = Str(<<>>)
    /\ env.ALERT_FROM = Str(<<>>) /\ env.ALERT_TO = Str(<<>>)
    /\ env.ALERT_SUBJECT = Str(<<"0">>)
    /\ EnteredHandler(1)
    /\ s3Requests[1] = <<[t |-> "object", Bucket |-> Lit("currency.prebid.org"),
                          Key |-> Lit("latest.json")]>>
    /\ FetchFailed(1)
    /\ Len(sesRequests[1]) = 1
    /\ sesRequests[1][1].Source = Lit("alerts@prebid.org")
    /\ sesRequests[1][1].Message.Subject.Data
         = Lit("ALERT: Prebid Currency Rates File Monitor")

=============================================================================
